---------------------------- MODULE Spec2Model ----------------------------
(***************************************************************************)
(* Model of the interactive installer state of talos:                      *)
(*   internal/pkg/tui/installer/state.go  (NewState, State, GenConfig)     *)
(* The Connection (ExpandingCluster, Disks, GenerateConfiguration), the    *)
(* Item/Page constructors and the process-wide constants are collaborators *)
(* of state.go; they are modelled at their boundary.                       *)
(***************************************************************************)
EXTENDS Integers, Sequences, FiniteSets, TLC

VARIABLES
    conn,        \* the *Connection handed to NewState
    called,      \* TRUE once NewState has run
    state,       \* the *State NewState returned: <<>> is nil, <<s>> a State
    newErr,      \* the error NewState returned ("nil": no error)
    disksOut,    \* what conn.Disks() answered: <<>> before the call
    disksCalls,  \* number of conn.Disks() calls made
    genCalls,    \* number of conn.GenerateConfiguration() calls made
    genConfigs,  \* number of GenConfig invocations
    edits,       \* number of item edits made
    edited,      \* the bound locations written by an edit so far
    written,     \* the value last written through each of them
    lastGen,     \* edits made when GenConfig last ran, and the request of the
                 \* GenConfig before it if no edit came in between
    codec,       \* a DiskSize on its way through MarshalYAML and UnmarshalYAML
    sent,        \* the request last handed to GenerateConfiguration (<<>>: none)
    sentCni,     \* s.cni as it was when that call was made
    collab,      \* the (resp, err) pair GenerateConfiguration last produced
    ret,         \* the (resp, err) pair GenConfig last returned
    cniPresets   \* the package-level preset table

vars == <<conn, called, state, newErr, disksOut, disksCalls, genCalls, genConfigs,
          edits, edited, written, sent, sentCni, collab, ret, cniPresets, codec,
          lastGen>>

-----------------------------------------------------------------------------
(* Bounds of the model *)

MaxDisks == 2
MaxEdits == 2
MaxGenCalls == 2

-----------------------------------------------------------------------------
(* Process-wide constants referenced by state.go *)

DefaultCNI == "flannel"
DefaultKubernetesVersion == "1.19.0"
DefaultInstallerImage == "ghcr.io/talos-systems/installer:latest"
DefaultControlPlanePort == 6443

\* upper limits of the page and item indices an edit may address
MaxPages == 3
MaxItems == 4
MaxExp == 4

TypeInit == "init"
TypeControlPlane == "controlplane"
TypeJoin == "join"

NoError == "nil"
NilPtr == <<>>

CiliumURL ==
    "https://raw.githubusercontent.com/cilium/cilium/v1.8/install/kubernetes/quick-install.yaml"

\* var cniPresets = map[string]*machineapi.CNIConfig{ "cilium": {...} }
CniPresetsTable ==
    [k \in {"cilium"} |-> [Name |-> "custom", Urls |-> <<CiliumURL>>]]

-----------------------------------------------------------------------------
(* Values of type interface{} carry their dynamic type *)

Str(s) == [t |-> "string", v |-> s]
MType(m) == [t |-> "MachineType", v |-> m]
NewTableHeaders(cols) == [t |-> "TableHeaders", v |-> cols]

RECURSIVE Pow(_, _)
Pow(b, e) == IF e = 0 THEN 1 ELSE b * Pow(b, e - 1)

RECURSIVE Log1000(_)
Log1000(s) == IF s < 1000 THEN 0 ELSE 1 + Log1000(s \div 1000)

ByteSuffixes == <<"B", "kB", "MB", "GB", "TB", "PB", "EB">>

\* humanize.Bytes: SI units, one decimal below 10, none from 10 on
\* (%.0f rounds half to even).
HumanizeBytes(s) ==
    IF s < 10 THEN ToString(s) \o " B"
    ELSE LET e == Log1000(s)
             unit == Pow(1000, e)
             tenths == (s * 20 + unit) \div (2 * unit)
             whole == tenths \div 10
             frac == tenths % 10
             rounded == IF frac > 5 \/ (frac = 5 /\ whole % 2 = 1)
                        THEN whole + 1 ELSE whole
         IN  IF tenths < 100
             THEN ToString(whole) \o "." \o ToString(frac) \o " " \o ByteSuffixes[e + 1]
             ELSE ToString(rounded) \o " " \o ByteSuffixes[e + 1]

-----------------------------------------------------------------------------
(* The Connection *)

Connections ==
    { [expanding |-> TRUE, bootstrapEndpoint |-> "10.0.0.1", nodeEndpoint |-> "10.0.0.2"],
      [expanding |-> FALSE, bootstrapEndpoint |-> "", nodeEndpoint |-> "10.0.0.2"] }

ExpandingCluster(c) == c.expanding

DiskCandidates ==
    { [DeviceName |-> "/dev/sda", Model |-> "ModelA", Size |-> 64000000],
      [DeviceName |-> "/dev/sdb", Model |-> "ModelB", Size |-> 1500] }

DiskLists == UNION { [1..n -> DiskCandidates] : n \in 0..MaxDisks }

DiskErrors == {"disks: rpc unavailable", "disks: context canceled"}

\* conn.Disks() answers a disk list or an error
DisksOutcomes ==
    { [Disks |-> l, err |-> NoError] : l \in DiskLists }
    \cup { [Disks |-> <<>>, err |-> e] : e \in DiskErrors }

\* conn.GenerateConfiguration(req) answers a response or an error
GenOutcomes ==
    { [resp |-> "machine-config-A", err |-> NoError],
      [resp |-> "machine-config-B", err |-> NoError],
      [resp |-> "nil", err |-> "generate: rpc failed"] }

-----------------------------------------------------------------------------
(* NewState *)

\* variant: the request is built without a default DNS domain
MutDefaultOptsNoDnsDomain ==
    [ConfigVersion |-> "v1alpha1",
     MachineConfig |->
        [Type |-> TypeInit,
         NetworkConfig |-> [Hostname |-> ""],
         KubernetesVersion |-> DefaultKubernetesVersion,
         InstallConfig |-> [InstallImage |-> DefaultInstallerImage,
                            InstallDisk |-> ""]],
     ClusterConfig |->
        [Name |-> "talos-default",
         ControlPlane |-> [Endpoint |-> ""],
         ClusterNetwork |-> [DnsDomain |-> "",
                             CniConfig |-> NilPtr]]]

\* variant: the request is built without its NetworkConfig
MutDefaultOptsNilNetworkConfig ==
    [ConfigVersion |-> "v1alpha1",
     MachineConfig |->
        [Type |-> TypeInit,
         NetworkConfig |-> NilPtr,
         KubernetesVersion |-> DefaultKubernetesVersion,
         InstallConfig |-> [InstallImage |-> DefaultInstallerImage,
                            InstallDisk |-> ""]],
     ClusterConfig |->
        [Name |-> "talos-default",
         ControlPlane |-> [Endpoint |-> ""],
         ClusterNetwork |-> [DnsDomain |-> "cluster.local",
                             CniConfig |-> NilPtr]]]

\* opts := &machineapi.GenerateConfigurationRequest{...}
DefaultOpts ==
    [ConfigVersion |-> "v1alpha1",
     MachineConfig |->
        [Type |-> TypeInit,
         NetworkConfig |-> [Hostname |-> ""],
         KubernetesVersion |-> DefaultKubernetesVersion,
         InstallConfig |-> [InstallImage |-> DefaultInstallerImage,
                            InstallDisk |-> ""]],
     ClusterConfig |->
        [Name |-> "talos-default",
         ControlPlane |-> [Endpoint |-> ""],
         ClusterNetwork |-> [DnsDomain |-> "cluster.local",
                             CniConfig |-> NilPtr]]]

\* fmt.Sprintf("https://%s:%d", host, constants.DefaultControlPlanePort)
EndpointURL(host) ==
    "https://" \o host \o ":" \o ToString(DefaultControlPlanePort)

\* variant: the node's own endpoint in every topology
MutControlPlaneEndpointNode(c) == EndpointURL(c.nodeEndpoint)

ControlPlaneEndpoint(c) ==
    IF ExpandingCluster(c)
    THEN EndpointURL(c.bootstrapEndpoint)
    ELSE EndpointURL(c.nodeEndpoint)


\* variant: the rows are built from the last disk to the first
RECURSIVE MutAppendDisksReversed(_, _)
MutAppendDisksReversed(options, disks) ==
    IF disks = <<>> THEN options
    ELSE MutAppendDisksReversed(
            options \o << Str(disks[Len(disks)].DeviceName),
                          Str(disks[Len(disks)].Model),
                          Str(HumanizeBytes(disks[Len(disks)].Size)) >>,
            SubSeq(disks, 1, Len(disks) - 1))

\* installDiskOptions: the header, then three cells per disk in Disks() order
RECURSIVE AppendDisks(_, _)
AppendDisks(options, disks) ==
    IF disks = <<>> THEN options
    ELSE AppendDisks(options \o << Str(Head(disks).DeviceName),
                                   Str(Head(disks).Model),
                                   Str(HumanizeBytes(Head(disks).Size)) >>,
                     Tail(disks))

InstallDiskOptions(disks) ==
    AppendDisks(<< NewTableHeaders(<<"device name", "model name", "size">>) >>, disks)

\* variant: the last disk of the list becomes the default
MutSetInstallDiskLast(opts, disks) ==
    IF Len(disks) >= 1
    THEN [opts EXCEPT !.MachineConfig.InstallConfig.InstallDisk =
                          disks[Len(disks)].DeviceName]
    ELSE opts

\* variant: a fallback device when no disk is listed
MutSetInstallDiskFallback(opts, disks) ==
    [opts EXCEPT !.MachineConfig.InstallConfig.InstallDisk =
                     IF Len(disks) >= 1 THEN disks[1].DeviceName ELSE "/dev/sda"]

\* if i == 0 { opts.MachineConfig.InstallConfig.InstallDisk = disk.DeviceName }
SetInstallDisk(opts, disks) ==
    IF Len(disks) >= 1
    THEN [opts EXCEPT !.MachineConfig.InstallConfig.InstallDisk = disks[1].DeviceName]
    ELSE opts

\* variant: the choices are built for the other topology
MutMachineTypesFlipped(c) ==
    IF ~ExpandingCluster(c)
    THEN << Str("worker"), MType(TypeJoin),
            Str("control plane"), MType(TypeControlPlane) >>
    ELSE << Str("control plane"), MType(TypeInit) >>

\* machineTypes, by topology
MachineTypes(c) ==
    IF ExpandingCluster(c)
    THEN << Str("worker"), MType(TypeJoin),
            Str("control plane"), MType(TypeControlPlane) >>
    ELSE << Str("control plane"), MType(TypeInit) >>

\* variant: expanding defaults to a type that is not on offer
MutSetMachineTypeInit(opts, c) ==
    [opts EXCEPT !.MachineConfig.Type = TypeInit]

\* variant: the machine type is overwritten in every topology
MutSetMachineTypeAlways(opts, c) ==
    [opts EXCEPT !.MachineConfig.Type = TypeControlPlane]

\* variant: the machine type keeps the value of the default request
MutSetMachineTypeSkip(opts, c) == opts

\* opts.MachineConfig.Type is overwritten only when expanding
SetMachineType(opts, c) ==
    IF ExpandingCluster(c)
    THEN [opts EXCEPT !.MachineConfig.Type = TypeControlPlane]
    ELSE opts

\* opts as NewState leaves it
NewOpts(c, disks) ==
    LET o1 == [DefaultOpts EXCEPT !.ClusterConfig.ControlPlane.Endpoint =
                                      ControlPlaneEndpoint(c)]
        o2 == SetInstallDisk(o1, disks)
    IN  SetMachineType(o2, c)

NewItem(name, description, dest, options) ==
    [name |-> name, description |-> description, dest |-> dest, options |-> options]

NewPage(title, items) == [title |-> title, items |-> items]

\* the locations items are bound to (&opts.<path>, &state.cni)
DestHostname == "opts.MachineConfig.NetworkConfig.Hostname"
DestDnsDomain == "opts.ClusterConfig.ClusterNetwork.DnsDomain"
DestCni == "state.cni"
DestInstallImage == "opts.MachineConfig.InstallConfig.InstallImage"
DestInstallDisk == "opts.MachineConfig.InstallConfig.InstallDisk"
DestType == "opts.MachineConfig.Type"
DestName == "opts.ClusterConfig.Name"
DestEndpoint == "opts.ClusterConfig.ControlPlane.Endpoint"
DestKubernetesVersion == "opts.MachineConfig.KubernetesVersion"

\* a bound location as the fields to follow from the State
DestPath(dest) ==
    CASE dest = DestHostname -> <<"opts", "MachineConfig", "NetworkConfig", "Hostname">>
      [] dest = DestDnsDomain -> <<"opts", "ClusterConfig", "ClusterNetwork", "DnsDomain">>
      [] dest = DestCni -> <<"cni">>
      [] dest = DestInstallImage ->
            <<"opts", "MachineConfig", "InstallConfig", "InstallImage">>
      [] dest = DestInstallDisk ->
            <<"opts", "MachineConfig", "InstallConfig", "InstallDisk">>
      [] dest = DestType -> <<"opts", "MachineConfig", "Type">>
      [] dest = DestName -> <<"opts", "ClusterConfig", "Name">>
      [] dest = DestEndpoint -> <<"opts", "ClusterConfig", "ControlPlane", "Endpoint">>
      [] dest = DestKubernetesVersion -> <<"opts", "MachineConfig", "KubernetesVersion">>

\* following the fields of a path never meets a nil pointer
RECURSIVE Resolves(_, _)
Resolves(v, path) ==
    \/ path = <<>>
    \/ /\ Head(path) \in DOMAIN v
       /\ Resolves(v[Head(path)], Tail(path))

CniItem ==
    NewItem("type", "ClusterNetworkConfigDoc.cni", DestCni,
            << NewTableHeaders(<<"CNI", "description">>),
               Str(DefaultCNI), Str("CNI used by Talos by default"),
               Str("cilium"), Str("Cillium 1.8 installed through quick-install.yaml") >>)

BaseNetworkConfigItems ==
    << NewItem("hostname", "NetworkConfigDoc.hostname", DestHostname, <<>>),
       NewItem("dns domain", "ClusterNetworkConfigDoc.dnsDomain", DestDnsDomain, <<>>) >>

\* variant: the plugin item is appended in every topology
MutNetworkConfigItemsAlways(c) == Append(BaseNetworkConfigItems, CniItem)

NetworkConfigItems(c) ==
    IF ~ExpandingCluster(c)
    THEN Append(BaseNetworkConfigItems, CniItem)
    ELSE BaseNetworkConfigItems

InstallerParamsPage(disks) ==
    NewPage("Installer Params",
       << NewItem("image", "InstallConfigDoc.image", DestInstallImage, <<>>),
          NewItem("install disk", "InstallConfigDoc.disk", DestInstallDisk,
                  InstallDiskOptions(disks)) >>)

\* variant: the cluster name item is bound to the hostname's location
MutMachineConfigPageSharedLocation(c) ==
    NewPage("Machine Config",
       << NewItem("machine type", "MachineConfigDoc.type", DestType, MachineTypes(c)),
          NewItem("cluster name", "ClusterConfigDoc.clusterName", DestHostname, <<>>),
          NewItem("control plane endpoint", "ControlPlaneConfigDoc.endpoint",
                  DestEndpoint, <<>>),
          NewItem("kubernetes version", "Kubernetes version to install.",
                  DestKubernetesVersion, <<>>) >>)

MachineConfigPage(c) ==
    NewPage("Machine Config",
       << NewItem("machine type", "MachineConfigDoc.type", DestType, MachineTypes(c)),
          NewItem("cluster name", "ClusterConfigDoc.clusterName", DestName, <<>>),
          NewItem("control plane endpoint", "ControlPlaneConfigDoc.endpoint",
                  DestEndpoint, <<>>),
          NewItem("kubernetes version", "Kubernetes version to install.",
                  DestKubernetesVersion, <<>>) >>)

NetworkConfigPage(c) == NewPage("Network Config", NetworkConfigItems(c))

\* variant: the machine page is put first
MutStatePagesSwapped(c, disks) ==
    << MachineConfigPage(c), InstallerParamsPage(disks), NetworkConfigPage(c) >>

\* state.pages = []*Page{...}
StatePages(c, disks) ==
    << InstallerParamsPage(disks), MachineConfigPage(c), NetworkConfigPage(c) >>

\* variant: the State starts with the cilium preset key selected
MutNewStateResultCiliumKey(c, d) ==
    IF d.err # NoError
    THEN [state |-> <<>>, err |-> d.err]
    ELSE [state |-> << [cni |-> "cilium",
                        conn |-> c,
                        opts |-> NewOpts(c, d.Disks),
                        pages |-> StatePages(c, d.Disks)] >>,
          err |-> NoError]

\* variant: a failed Disks() is not returned from; the State is built from
\* the empty list and handed back with the error
MutNewStateResultKeepsState(c, d) ==
    [state |-> << [cni |-> DefaultCNI,
                   conn |-> c,
                   opts |-> NewOpts(c, d.Disks),
                   pages |-> StatePages(c, d.Disks)] >>,
     err |-> d.err]

\* what NewState returns for a Connection and its Disks() answer
NewStateResult(c, d) ==
    IF d.err # NoError
    THEN [state |-> <<>>, err |-> d.err]
    ELSE [state |-> << [cni |-> DefaultCNI,
                        conn |-> c,
                        opts |-> NewOpts(c, d.Disks),
                        pages |-> StatePages(c, d.Disks)] >>,
          err |-> NoError]

NewState(d) ==
    /\ ~called
    /\ called' = TRUE
    /\ disksOut' = <<d>>
    /\ disksCalls' = disksCalls + 1
    /\ state' = NewStateResult(conn, d).state
    /\ newErr' = NewStateResult(conn, d).err
    /\ UNCHANGED <<conn, genCalls, genConfigs, edits, edited, written, sent, sentCni,
                   collab, ret, cniPresets, codec, lastGen>>

-----------------------------------------------------------------------------
(* Items: choices and edits *)

HasTable(item) ==
    /\ item.options # <<>>
    /\ item.options[1].t = "TableHeaders"

\* number of cells of one choice: the header's width, or (display, value)
ChoiceWidth(item) ==
    IF HasTable(item) THEN Len(item.options[1].v) ELSE 2

ChoiceCells(item) ==
    IF HasTable(item) THEN Tail(item.options) ELSE item.options

NumChoices(item) == Len(ChoiceCells(item)) \div ChoiceWidth(item)

\* the i-th choice, as its cells
ChoiceRow(item, i) ==
    SubSeq(ChoiceCells(item), (i - 1) * ChoiceWidth(item) + 1, i * ChoiceWidth(item))

\* rows of the item's choice table, the header row included
TableRows(item) ==
    IF HasTable(item) THEN 1 + NumChoices(item) ELSE NumChoices(item)

\* the value a choice writes: a table row's first cell, a pair's second
ChoiceValue(item, i) ==
    IF HasTable(item) THEN ChoiceRow(item, i)[1].v ELSE ChoiceRow(item, i)[2].v

ChoiceValues(item) == { ChoiceValue(item, i) : i \in 1..NumChoices(item) }

\* what a user may type into an item without choices
FreeText(dest) ==
    CASE dest = DestHostname -> {"node-1"}
      [] dest = DestDnsDomain -> {"corp.internal"}
      [] dest = DestInstallImage -> {"registry.local/installer:v1"}
      [] dest = DestName -> {"prod"}
      [] dest = DestEndpoint -> {"https://vip.example:443"}
      [] dest = DestKubernetesVersion -> {"1.20.1"}
      [] OTHER -> {"custom-value"}

EditValues(item) ==
    IF item.options # <<>> THEN ChoiceValues(item) ELSE FreeText(item.dest)

\* the value at a bound location
Get(s, dest) ==
    CASE dest = DestHostname -> s.opts.MachineConfig.NetworkConfig.Hostname
      [] dest = DestDnsDomain -> s.opts.ClusterConfig.ClusterNetwork.DnsDomain
      [] dest = DestCni -> s.cni
      [] dest = DestInstallImage -> s.opts.MachineConfig.InstallConfig.InstallImage
      [] dest = DestInstallDisk -> s.opts.MachineConfig.InstallConfig.InstallDisk
      [] dest = DestType -> s.opts.MachineConfig.Type
      [] dest = DestName -> s.opts.ClusterConfig.Name
      [] dest = DestEndpoint -> s.opts.ClusterConfig.ControlPlane.Endpoint
      [] dest = DestKubernetesVersion -> s.opts.MachineConfig.KubernetesVersion

\* the State after a write through a bound location
Set(s, dest, v) ==
    CASE dest = DestHostname ->
            [s EXCEPT !.opts.MachineConfig.NetworkConfig.Hostname = v]
      [] dest = DestDnsDomain ->
            [s EXCEPT !.opts.ClusterConfig.ClusterNetwork.DnsDomain = v]
      [] dest = DestCni -> [s EXCEPT !.cni = v]
      [] dest = DestInstallImage ->
            [s EXCEPT !.opts.MachineConfig.InstallConfig.InstallImage = v]
      [] dest = DestInstallDisk ->
            [s EXCEPT !.opts.MachineConfig.InstallConfig.InstallDisk = v]
      [] dest = DestType -> [s EXCEPT !.opts.MachineConfig.Type = v]
      [] dest = DestName -> [s EXCEPT !.opts.ClusterConfig.Name = v]
      [] dest = DestEndpoint ->
            [s EXCEPT !.opts.ClusterConfig.ControlPlane.Endpoint = v]
      [] dest = DestKubernetesVersion ->
            [s EXCEPT !.opts.MachineConfig.KubernetesVersion = v]

\* the State after the user sets item `item` to v: the write goes through
\* the item's bound location
EditState(s, item, v) == Set(s, item.dest, v)

\* the user edits item i of page p
Edit(p, i) ==
    /\ state # <<>>
    /\ edits < MaxEdits
    /\ p \in 1..Len(state[1].pages)
    /\ i \in 1..Len(state[1].pages[p].items)
    /\ \E v \in EditValues(state[1].pages[p].items[i]) :
          /\ state' = << EditState(state[1], state[1].pages[p].items[i], v) >>
          /\ written' = [d \in edited \cup { state[1].pages[p].items[i].dest } |->
                            IF d = state[1].pages[p].items[i].dest THEN v ELSE written[d]]
    /\ edits' = edits + 1
    /\ edited' = edited \cup { state[1].pages[p].items[i].dest }
    /\ UNCHANGED <<conn, called, newErr, disksOut, disksCalls, genCalls, genConfigs,
                   sent, sentCni, collab, ret, cniPresets, codec, lastGen>>

-----------------------------------------------------------------------------
(* GenConfig *)

\* the CNIConfig a request's pointer addresses: <<>> for nil
Deref(ptr) == IF ptr = NilPtr THEN <<>> ELSE << cniPresets[ptr[1]] >>

\* variant: the request is handed over without the hostname typed in
MutWireStaleHostname(opts) ==
    [opts EXCEPT !.ClusterConfig.ClusterNetwork.CniConfig = Deref(@),
                 !.MachineConfig.NetworkConfig.Hostname = ""]

\* the request as the collaborator reads it
Wire(opts) ==
    [opts EXCEPT !.ClusterConfig.ClusterNetwork.CniConfig = Deref(@)]

\* variant: a preset key selected again takes the configuration out again
MutApplyPresetToggles(s) ==
    IF s.cni \in DOMAIN cniPresets
    THEN [s EXCEPT !.opts.ClusterConfig.ClusterNetwork.CniConfig =
                      IF @ = NilPtr THEN << s.cni >> ELSE NilPtr]
    ELSE s

\* variant: a key without a preset clears the request's CNI configuration
MutApplyPresetClears(s) ==
    IF s.cni \in DOMAIN cniPresets
    THEN [s EXCEPT !.opts.ClusterConfig.ClusterNetwork.CniConfig = << s.cni >>]
    ELSE [s EXCEPT !.opts.ClusterConfig.ClusterNetwork.CniConfig = NilPtr]

\* variant: applying a preset puts the selected key back to the default
MutApplyPresetResetsKey(s) ==
    IF s.cni \in DOMAIN cniPresets
    THEN [s EXCEPT !.opts.ClusterConfig.ClusterNetwork.CniConfig = << s.cni >>,
                   !.cni = DefaultCNI]
    ELSE s

\* variant: applying a preset rebuilds the State without its pages
MutApplyPresetDropsPages(s) ==
    IF s.cni \in DOMAIN cniPresets
    THEN [s EXCEPT !.opts.ClusterConfig.ClusterNetwork.CniConfig = << s.cni >>,
                   !.pages = <<>>]
    ELSE s

\* variant: the preset lookup is skipped
MutApplyPresetSkip(s) == s

\* variant: the cilium preset is applied whatever key is selected
MutApplyPresetAlways(s) ==
    [s EXCEPT !.opts.ClusterConfig.ClusterNetwork.CniConfig = << "cilium" >>]

\* if customCNI, ok := cniPresets[s.cni]; ok { ...CniConfig = customCNI }
ApplyPreset(s) ==
    IF s.cni \in DOMAIN cniPresets
    THEN [s EXCEPT !.opts.ClusterConfig.ClusterNetwork.CniConfig = << s.cni >>]
    ELSE s

\* variant: a failure is wrapped with call context and the response dropped
MutGenConfigReturnWrap(out) ==
    IF out.err = NoError THEN out
    ELSE [resp |-> "nil", err |-> "genconfig: " \o out.err]

\* return s.conn.GenerateConfiguration(s.opts)
GenConfigReturn(out) == out

\* variant: the lookup registers the selected key in the table
MutPresetsAfterGenConfigStores(s) ==
    [k \in DOMAIN cniPresets \cup {s.cni} |->
        IF k \in DOMAIN cniPresets THEN cniPresets[k] ELSE [Name |-> k, Urls |-> <<>>]]

\* the preset table after GenConfig: the lookup only reads the map, and the
\* assignment copies the entry's pointer, not the entry
PresetsAfterGenConfig(s) == cniPresets

\* variant: a failed call is made once more
MutGenerateConfigurationCallsRetry(out) == IF out.err # NoError THEN 2 ELSE 1

\* the number of GenerateConfiguration calls one GenConfig makes, given
\* the answer to the first
GenerateConfigurationCalls(out) == 1

\* variant: a request already handed over is handed over again as it was
MutGenConfigHandsOverOnce(out) ==
    /\ state # <<>>
    /\ genCalls < MaxGenCalls
    /\ state' = << ApplyPreset(state[1]) >>
    /\ sent' = IF sent # <<>> THEN sent ELSE << Wire(ApplyPreset(state[1]).opts) >>
    /\ sentCni' = << state[1].cni >>
    /\ genCalls' = genCalls + GenerateConfigurationCalls(out)
    /\ genConfigs' = genConfigs + 1
    /\ collab' = << out >>
    /\ ret' = << GenConfigReturn(out) >>
    /\ cniPresets' = PresetsAfterGenConfig(state[1])
    /\ lastGen' = << [edits |-> edits,
                      prev |-> IF lastGen # <<>> /\ lastGen[1].edits = edits
                               THEN sent ELSE <<>>] >>
    /\ UNCHANGED <<conn, called, newErr, disksOut, disksCalls, edits, edited, written,
                   codec>>

GenConfig(out) ==
    /\ state # <<>>
    /\ genCalls < MaxGenCalls
    /\ state' = << ApplyPreset(state[1]) >>
    /\ sent' = << Wire(ApplyPreset(state[1]).opts) >>
    /\ sentCni' = << state[1].cni >>
    /\ genCalls' = genCalls + GenerateConfigurationCalls(out)
    /\ genConfigs' = genConfigs + 1
    /\ collab' = << out >>
    /\ ret' = << GenConfigReturn(out) >>
    /\ cniPresets' = PresetsAfterGenConfig(state[1])
    /\ lastGen' = << [edits |-> edits,
                      prev |-> IF lastGen # <<>> /\ lastGen[1].edits = edits
                               THEN sent ELSE <<>>] >>
    /\ UNCHANGED <<conn, called, newErr, disksOut, disksCalls, edits, edited, written,
                   codec>>

-----------------------------------------------------------------------------
(* DiskSize and its YAML encoding *)

\* A DiskSize is a uint64.  It is written as its decimal digits, most
\* significant first and without leading zeros, because the values that
\* matter lie beyond 2^53.

RECURSIVE Strip(_)
Strip(ds) == IF Len(ds) > 1 /\ ds[1] = 0 THEN Strip(Tail(ds)) ELSE ds

Zeros(n) == [i \in 1..n |-> 0]

Front(q) == SubSeq(q, 1, Len(q) - 1)

Last(q) == q[Len(q)]

RECURSIVE DigitsOf(_)
DigitsOf(n) == IF n < 10 THEN << n >> ELSE DigitsOf(n \div 10) \o << n % 10 >>

RECURSIVE ValueOf(_)
ValueOf(ds) == IF ds = <<>> THEN 0 ELSE 10 * ValueOf(Front(ds)) + Last(ds)

\* ds <= es on digit sequences
RECURSIVE LexLeq(_, _)
LexLeq(ds, es) ==
    \/ ds = <<>>
    \/ ds[1] < es[1]
    \/ ds[1] = es[1] /\ LexLeq(Tail(ds), Tail(es))

Leq(ds, es) == Len(ds) < Len(es) \/ (Len(ds) = Len(es) /\ LexLeq(ds, es))

MaxUint64 == <<1,8,4,4,6,7,4,4,0,7,3,7,0,9,5,5,1,6,1,5>>

\* float64 keeps 53 significant bits: from 2^53 on not every whole number
\* is a float64
TwoTo53 == <<9,0,0,7,1,9,9,2,5,4,7,4,0,9,9,2>>

\* the digits of ds \div d for a small d, r being the remainder carried in
RECURSIVE QuotFrom(_, _, _)
QuotFrom(ds, d, r) ==
    IF ds = <<>> THEN <<>>
    ELSE << (10 * r + ds[1]) \div d >> \o QuotFrom(Tail(ds), d, (10 * r + ds[1]) % d)

Quot(ds, d) == Strip(QuotFrom(ds, d, 0))

\* the first n digits of ds, taken modulo d
RECURSIVE RemUpTo(_, _, _)
RemUpTo(ds, d, n) == IF n = 0 THEN 0 ELSE (10 * RemUpTo(ds, d, n - 1) + ds[n]) % d

Rem(ds, d) == RemUpTo(ds, d, Len(ds))

\* the digits of m * ds + c for a small m
RECURSIVE MulAdd(_, _, _)
MulAdd(ds, m, c) ==
    IF ds = <<>> THEN (IF c = 0 THEN <<>> ELSE DigitsOf(c))
    ELSE MulAdd(Front(ds), m, (m * Last(ds) + c) \div 10) \o << (m * Last(ds) + c) % 10 >>

\* how many binary digits ds has beyond the 53 a float64 keeps
RECURSIVE ExcessBits(_)
ExcessBits(ds) == IF ~Leq(TwoTo53, ds) THEN 0 ELSE 1 + ExcessBits(Quot(ds, 2))

\* strconv.ParseFloat(num, 64) of a whole number: the nearest float64, ties
\* to even
Float64Of(ds) ==
    LET unit == Pow(2, ExcessBits(ds))
        q == Quot(ds, unit)
        r == Rem(ds, unit)
        up == 2 * r > unit \/ (2 * r = unit /\ Last(q) % 2 = 1)
    IN  IF unit = 1 THEN ds
        ELSE MulAdd(IF up THEN MulAdd(q, 1, 1) ELSE q, unit, 0)

\* a size text: the digits before the point, the digit after it (if any)
\* and the unit
SizeText(num, frac, unit) == [num |-> num, frac |-> frac, unit |-> unit]

\* bytesSizeTable: the power of 1000 a unit stands for
UnitExp(unit) ==
    IF unit = "" THEN 0 ELSE (CHOOSE i \in 1..Len(ByteSuffixes) : ByteSuffixes[i] = unit) - 1

\* humanize.ParseBytes: the number goes through a float64, is multiplied by
\* the unit, refused when it reaches 2^64 and truncated to a uint64.
ParseBytes(text) ==
    LET all == text.num \o text.frac \o Zeros(3 * UnitExp(text.unit))
        exact == IF Len(all) = Len(text.frac) THEN << 0 >>
                 ELSE Strip(SubSeq(all, 1, Len(all) - Len(text.frac)))
        f == Float64Of(exact)
    IN  IF ~Leq(f, MaxUint64)
        THEN [err |-> "too large", v |-> << 0 >>]
        ELSE [err |-> NoError, v |-> f]

\* humanize.Bytes on a uint64 given by its digits (HumanizeBytes above is
\* the same function on a small number, kept as a string)
BytesText(ds) ==
    IF Len(ds) = 1 THEN SizeText(ds, <<>>, "B")
    ELSE LET e == (Len(ds) - 1) \div 3
             k == Len(ds) - 3 * e
             lead == ValueOf(SubSeq(ds, 1, k))
             tenths == IF e = 0 THEN 10 * lead
                       ELSE 10 * lead + ds[k + 1] + (IF ds[k + 2] >= 5 THEN 1 ELSE 0)
             whole == tenths \div 10
             frac == tenths % 10
             rounded == IF frac > 5 \/ (frac = 5 /\ whole % 2 = 1)
                        THEN whole + 1 ELSE whole
         IN  IF tenths < 100
             THEN SizeText(DigitsOf(whole), << frac >>, ByteSuffixes[e + 1])
             ELSE SizeText(DigitsOf(rounded), <<>>, ByteSuffixes[e + 1])

\* ds % DiskSize(1000) == 0
MultipleOf1000(ds) ==
    ValueOf(SubSeq(ds, IF Len(ds) > 3 THEN Len(ds) - 2 ELSE 1, Len(ds))) = 0

\* DiskSize.MarshalYAML
MarshalYAML(ds) ==
    IF /\ MultipleOf1000(ds)
       /\ ParseBytes(BytesText(ds)).err = NoError
       /\ ParseBytes(BytesText(ds)).v = ds
    THEN [t |-> "string", text |-> BytesText(ds)]
    ELSE [t |-> "uint64", v |-> ds]

\* unmarshal(&size): a string scalar as it is, an integer scalar as its
\* decimal text
ScalarText(form) ==
    IF form.t = "string" THEN form.text ELSE SizeText(form.v, <<>>, "")

\* DiskSize.UnmarshalYAML into a zero DiskSize
UnmarshalYAML(form) ==
    IF ParseBytes(ScalarText(form)).err # NoError
    THEN [err |-> ParseBytes(ScalarText(form)).err, ds |-> << 0 >>]
    ELSE [err |-> NoError, ds |-> ParseBytes(ScalarText(form)).v]

\* the sizes tried: small ones around the unit steps, round and not
\* so round multiples of the powers of 1000, and the neighbourhoods of 2^53
\* and 2^64
Mantissas ==
    { <<1>>, <<6,4>>, <<9,9,9>>, <<1,5,0,0>>, <<1,2,3,4>>, <<2,0,4,8>>, <<9,9,9,5>> }

DiskSizes ==
    { ds \in
        { <<0>>, <<9>>, <<1,0>>, <<1,0,5,0,0>>, <<9,9,9,9,5,0>> }
        \cup { m \o Zeros(3 * e) : m \in Mantissas, e \in 0..MaxExp }
        \cup { <<9,0,0,7,1,9,9,2,5,4,7,4,0,9,9>> \o << d >> : d \in 0..9 }
        \cup { <<9,0,0,7,1,9,9,2,5,4,7,4,1,0,0,0>>,
               <<1,8,0,1,4,3,9,8,5,0,9,4,8,1,9,8,5>>,
               <<1,0,0,0,0,0,0,0,0,0,0,0,0,0,0,0,0,0,0>>,
               <<1,8,4,4,6,7,4,4,0,7,3,7,0,9,5,5,0,0,0,0>>,
               <<1,8,4,4,6,7,4,4,0,7,3,7,0,9,5,5,1,6,1,5>> } :
      Leq(ds, MaxUint64) }

CodecIdle == [phase |-> "idle", ds |-> << 0 >>, form |-> <<>>, out |-> <<>>]

DoMarshalYAML ==
    /\ codec.phase = "input"
    /\ codec' = [codec EXCEPT !.phase = "marshaled", !.form = MarshalYAML(codec.ds)]
    /\ UNCHANGED <<conn, called, state, newErr, disksOut, disksCalls, genCalls,
                   genConfigs, edits, edited, written, sent, sentCni, collab, ret,
                   cniPresets, lastGen>>

DoUnmarshalYAML ==
    /\ codec.phase = "marshaled"
    /\ codec' = [codec EXCEPT !.phase = "decoded", !.out = UnmarshalYAML(codec.form)]
    /\ UNCHANGED <<conn, called, state, newErr, disksOut, disksCalls, genCalls,
                   genConfigs, edits, edited, written, sent, sentCni, collab, ret,
                   cniPresets, lastGen>>

-----------------------------------------------------------------------------
(* Specification *)

Init ==
    /\ conn \in Connections
    /\ called = FALSE
    /\ state = <<>>
    /\ newErr = NoError
    /\ disksOut = <<>>
    /\ disksCalls = 0
    /\ genCalls = 0
    /\ genConfigs = 0
    /\ edits = 0
    /\ edited = {}
    /\ written = <<>>
    /\ sent = <<>>
    /\ sentCni = <<>>
    /\ collab = <<>>
    /\ ret = <<>>
    /\ cniPresets = CniPresetsTable
    /\ codec = CodecIdle
    /\ lastGen = <<>>

Next ==
    \/ \E d \in DisksOutcomes : NewState(d)
    \/ \E p \in 1..MaxPages, i \in 1..MaxItems : Edit(p, i)
    \/ \E out \in GenOutcomes : GenConfig(out)

Spec == Init /\ [][Next]_vars

\* the encoding on its own: one DiskSize, marshaled and decoded again
InitCodec ==
    /\ conn \in Connections
    /\ called = FALSE
    /\ state = <<>>
    /\ newErr = NoError
    /\ disksOut = <<>>
    /\ disksCalls = 0
    /\ genCalls = 0
    /\ genConfigs = 0
    /\ edits = 0
    /\ edited = {}
    /\ written = <<>>
    /\ sent = <<>>
    /\ sentCni = <<>>
    /\ collab = <<>>
    /\ ret = <<>>
    /\ cniPresets = CniPresetsTable
    /\ lastGen = <<>>
    /\ codec \in { [phase |-> "input", ds |-> ds, form |-> <<>>, out |-> <<>>] :
                       ds \in DiskSizes }

NextCodec ==
    \/ DoMarshalYAML
    \/ DoUnmarshalYAML

SpecCodec == InitCodec /\ [][NextCodec]_vars

-----------------------------------------------------------------------------
(* Properties *)

Built == state # <<>>
Disks == disksOut[1].Disks
Opts == state[1].opts
Pages == state[1].pages
InstallDiskItem == Pages[1].items[2]
MachineTypeItem == Pages[2].items[1]
ItemNames(page) == [i \in 1..Len(page.items) |-> page.items[i].name]
HasItemBoundTo(dest) ==
    \E p \in 1..Len(Pages) :
        \E i \in 1..Len(Pages[p].items) : Pages[p].items[i].dest = dest
SentCniConfig == sent[1].ClusterConfig.ClusterNetwork.CniConfig

\* C1: a failed Disks() makes NewState return that same error and a nil
\* State, and GenerateConfiguration is never invoked.
C1_DisksFailureAborts ==
    (called /\ disksOut[1].err # NoError) =>
        /\ newErr = disksOut[1].err
        /\ state = <<>>
        /\ genCalls = 0
        /\ sent = <<>>
        /\ ret = <<>>

C1_Witness == called /\ disksOut[1].err = "disks: context canceled"

\* C2: a GenConfig made with a preset key selected hands over a request
\* whose CNI configuration is exactly that preset's name and URL list.
C2_PresetOverrides ==
    (sent # <<>> /\ sentCni[1] \in DOMAIN CniPresetsTable) =>
        SentCniConfig = << [Name |-> "custom", Urls |-> << CiliumURL >>] >>

C2_Witness ==
    /\ sent # <<>>
    /\ sentCni = << "cilium" >>
    /\ edits >= 2
    /\ DestHostname \in edited

\* C3 (as stated): a GenConfig made with a non-preset key hands over a CNI
\* configuration that carries the selected key as its name and no URLs.
C3_Original ==
    (sent # <<>> /\ sentCni[1] \notin DOMAIN CniPresetsTable) =>
        SentCniConfig = << [Name |-> sentCni[1], Urls |-> <<>>] >>

\* C3 (amended): a GenConfig made with a non-preset key leaves the
\* request's CNI configuration as it was before the call, and hands over
\* exactly that: nil, or the preset an earlier GenConfig had stored.
C3_NonPresetLeavesCni ==
    [][(genCalls' = genCalls + 1 /\ state[1].cni \notin DOMAIN cniPresets) =>
          /\ state'[1].opts.ClusterConfig.ClusterNetwork.CniConfig =
                state[1].opts.ClusterConfig.ClusterNetwork.CniConfig
          /\ sent'[1].ClusterConfig.ClusterNetwork.CniConfig =
                Deref(state[1].opts.ClusterConfig.ClusterNetwork.CniConfig)
          /\ (genCalls = 0 =>
                sent'[1].ClusterConfig.ClusterNetwork.CniConfig = <<>>)]_vars

C3_Witness ==
    /\ genCalls = 1
    /\ sentCni = << DefaultCNI >>
    /\ SentCniConfig = <<>>

\* C4: GenConfig returns exactly the (response, error) pair that
\* GenerateConfiguration produced.
C4_ReturnsVerbatim ==
    /\ ret = collab
    /\ (genCalls > 0) = (ret # <<>>)

C4_Witness ==
    /\ ret # <<>>
    /\ ret[1].err = "generate: rpc failed"

\* C5: with N >= 1 disks, NewState leaves the install disk at the first
\* disk's device name and the install-disk table has N+1 rows.
C5_FirstDiskDefault ==
    (Built /\ Len(Disks) >= 1) =>
        /\ TableRows(InstallDiskItem) = Len(Disks) + 1
        /\ (DestInstallDisk \notin edited =>
              Opts.MachineConfig.InstallConfig.InstallDisk = Disks[1].DeviceName)

C5_Witness ==
    /\ Built
    /\ DestInstallDisk \notin edited
    /\ edited # {}
    /\ Len(Disks) = 2
    /\ Disks[1].DeviceName = "/dev/sdb"
    /\ Disks[2].DeviceName = "/dev/sda"

\* C6: with an empty disk list NewState succeeds, the install-disk table
\* holds only the header row and the install disk stays empty.
C6_EmptyDiskList ==
    (called /\ disksOut[1].err = NoError /\ Disks = <<>>) =>
        /\ Built
        /\ newErr = NoError
        /\ TableRows(InstallDiskItem) = 1
        /\ Len(InstallDiskItem.options) = 1
        /\ InstallDiskItem.options[1].v = <<"device name", "model name", "size">>
        /\ (DestInstallDisk \notin edited =>
              Opts.MachineConfig.InstallConfig.InstallDisk = "")

C6_Witness ==
    /\ Built
    /\ edits > 0
    /\ Disks = <<>>

\* C7: the Network Config page has the plugin item (choices: the default
\* plugin and cilium) exactly when bootstrapping; three items then, two
\* when expanding.
C7_PluginItemIffBootstrapping ==
    Built =>
        /\ Pages[3].title = "Network Config"
        /\ HasItemBoundTo(DestCni) <=> ~conn.expanding
        /\ conn.expanding => ItemNames(Pages[3]) = <<"hostname", "dns domain">>
        /\ ~conn.expanding =>
              /\ ItemNames(Pages[3]) = <<"hostname", "dns domain", "type">>
              /\ Pages[3].items[3].dest = DestCni
              /\ NumChoices(Pages[3].items[3]) = 2
              /\ ChoiceValues(Pages[3].items[3]) = {"flannel", "cilium"}

C7_Witness ==
    /\ Built
    /\ conn.expanding
    /\ Len(Pages[3].items) = 2
    /\ edits > 0

\* C8: expanding offers worker -> join and control plane -> controlplane and
\* defaults to controlplane; bootstrapping offers control plane -> init only
\* and defaults to init.
C8_MachineTypeByTopology ==
    Built =>
        /\ MachineTypeItem.dest = DestType
        /\ conn.expanding =>
              /\ MachineTypeItem.options =
                    << Str("worker"), MType("join"),
                       Str("control plane"), MType("controlplane") >>
              /\ (DestType \notin edited => Opts.MachineConfig.Type = "controlplane")
        /\ ~conn.expanding =>
              /\ MachineTypeItem.options = << Str("control plane"), MType("init") >>
              /\ (DestType \notin edited => Opts.MachineConfig.Type = "init")

C8_Witness ==
    /\ Built
    /\ conn.expanding
    /\ DestType \notin edited
    /\ edits > 0

\* C9: NewState sets the endpoint to https://<bootstrapEndpoint>:6443 when
\* expanding and https://<nodeEndpoint>:6443 otherwise; with the endpoint
\* and machine-type items unedited, an expanding session hands over that
\* bootstrap URL and machine type controlplane.
C9_EndpointByTopology ==
    /\ (Built /\ DestEndpoint \notin edited) =>
          Opts.ClusterConfig.ControlPlane.Endpoint =
             "https://"
                \o (IF conn.expanding THEN conn.bootstrapEndpoint ELSE conn.nodeEndpoint)
                \o ":6443"
    /\ (sent # <<>> /\ conn.expanding /\ edited \cap {DestEndpoint, DestType} = {}) =>
          /\ sent[1].ClusterConfig.ControlPlane.Endpoint = "https://10.0.0.1:6443"
          /\ sent[1].MachineConfig.Type = "controlplane"

C9_Witness ==
    /\ sent # <<>>
    /\ conn.expanding
    /\ edited \cap {DestEndpoint, DestType} = {}
    /\ edited # {}

\* C10: three pages in the order Installer Params, Machine Config, Network
\* Config, with their items in declaration order, whatever the disks and
\* the edits.
C10_PagesInFixedOrder ==
    Built =>
        /\ [p \in 1..Len(Pages) |-> Pages[p].title] =
              <<"Installer Params", "Machine Config", "Network Config">>
        /\ ItemNames(Pages[1]) = <<"image", "install disk">>
        /\ [i \in 1..2 |-> Pages[1].items[i].dest] = <<DestInstallImage, DestInstallDisk>>
        /\ ItemNames(Pages[2]) =
              <<"machine type", "cluster name", "control plane endpoint",
                "kubernetes version">>
        /\ [i \in 1..4 |-> Pages[2].items[i].dest] =
              <<DestType, DestName, DestEndpoint, DestKubernetesVersion>>

C10_Witness ==
    /\ Built
    /\ edits = MaxEdits
    /\ Len(Disks) = 2
    /\ genCalls > 0

\* C11 (as stated): every item of every page is bound to an initialized
\* field inside the request object.
C11_Original ==
    Built =>
        \A p \in 1..Len(Pages) : \A i \in 1..Len(Pages[p].items) :
            /\ Head(DestPath(Pages[p].items[i].dest)) = "opts"
            /\ Resolves(state[1], DestPath(Pages[p].items[i].dest))

\* C11 (amended): every item is bound to an initialized location; that
\* location is a field of the request for every item but the plugin item of
\* a bootstrapping session, which is bound to the State's own cni field.
C11_ItemsBoundToInitializedFields ==
    Built =>
        \A p \in 1..Len(Pages) : \A i \in 1..Len(Pages[p].items) :
            /\ Resolves(state[1], DestPath(Pages[p].items[i].dest))
            /\ IF Pages[p].items[i].name = "type"
               THEN /\ ~conn.expanding
                    /\ DestPath(Pages[p].items[i].dest) = <<"cni">>
               ELSE /\ Head(DestPath(Pages[p].items[i].dest)) = "opts"
                    /\ Len(DestPath(Pages[p].items[i].dest)) >= 3

C11_Witness ==
    /\ Built
    /\ ~conn.expanding
    /\ DestCni \in edited
    /\ DestHostname \in edited
    /\ state[1].cni = "cilium"
    /\ Opts.MachineConfig.NetworkConfig.Hostname = "node-1"

\* C12: one NewState makes exactly one Disks() call and no
\* GenerateConfiguration call; every GenConfig makes exactly one
\* GenerateConfiguration call and no Disks() call, whatever the answers.
C12_OneAttemptPerPhase ==
    /\ disksCalls = (IF called THEN 1 ELSE 0)
    /\ genCalls = genConfigs
    /\ (genConfigs = 0) = (sent = <<>>)

C12_Witness ==
    /\ called
    /\ genConfigs = 2
    /\ ret[1].err # NoError

\* C13 (as stated): once GenConfig has been called the State is finalized;
\* no item is edited and no request is handed over after that.
C13_Original ==
    [][genConfigs >= 1 => (edits' = edits /\ genConfigs' = genConfigs)]_vars

\* C13 (amended): the State keeps no finalized state; GenConfig may follow
\* GenConfig and edits may follow GenConfig, and every GenConfig, the first
\* or a later one, hands over the request as it is at that moment.
C13_EveryGenConfigHandsOverCurrentRequest ==
    [][genConfigs' = genConfigs + 1 =>
          /\ state # <<>>
          /\ sent' = << Wire(state'[1].opts) >>
          /\ \A d \in edited \ {DestCni} :
                Get([opts |-> sent'[1]], d) = written[d]]_vars

C13_Witness ==
    /\ genConfigs = 2
    /\ edits = 2
    /\ sent[1] # Wire(Opts)
    /\ sent[1].MachineConfig.NetworkConfig.Hostname = "node-1"

\* C14: the preset table always maps exactly "cilium" to the name "custom"
\* and the one cilium URL, whatever NewState, the edits and the GenConfig
\* calls did.
C14_PresetTableReadOnly ==
    /\ DOMAIN cniPresets = {"cilium"}
    /\ cniPresets["cilium"] =
          [Name |-> "custom",
           Urls |-> << "https://raw.githubusercontent.com/cilium/cilium/v1.8/install/kubernetes/quick-install.yaml" >>]

C14_Witness ==
    /\ genConfigs = 2
    /\ edits = 2
    /\ ret[1].err # NoError
    /\ Opts.ClusterConfig.ClusterNetwork.CniConfig = << "cilium" >>
    /\ state[1].cni = DefaultCNI

\* the request fields items are bound to
RequestDests ==
    {DestHostname, DestDnsDomain, DestInstallImage, DestInstallDisk, DestType,
     DestName, DestEndpoint, DestKubernetesVersion}

\* C15: in the request a GenConfig hands over, every field bound to an item
\* holds the value last written through the item, or NewState's value if
\* the item was never edited.
C15_EditsAppliedInPlace ==
    [][genConfigs' = genConfigs + 1 =>
          \A d \in RequestDests :
              /\ HasItemBoundTo(d)
              /\ Get([opts |-> sent'[1]], d) =
                    IF d \in edited THEN written[d]
                    ELSE Get([opts |-> NewOpts(conn, Disks)], d)]_vars

C15_Witness ==
    /\ genConfigs >= 1
    /\ edited = {DestHostname, DestInstallDisk}
    /\ sent[1].MachineConfig.NetworkConfig.Hostname = "node-1"
    /\ sent[1].MachineConfig.InstallConfig.InstallDisk = "/dev/sdb"
    /\ Disks[1].DeviceName = "/dev/sda"
    /\ sent[1].ClusterConfig.Name = "talos-default"

\* C16: every page has at least one item, and no edit and no GenConfig
\* adds, removes or reorders pages or the items of a page.
C16_PageMembershipFixed ==
    /\ [](Built => \A p \in 1..Len(Pages) : Len(Pages[p].items) >= 1)
    /\ [][Built => (state' # <<>> /\ state'[1].pages = state[1].pages)]_vars

C16_Witness ==
    /\ Built
    /\ edits = 2
    /\ genConfigs = 2
    /\ sentCni = << "cilium" >>
    /\ Len(Pages) = 3

\* C17: bootstrapping, first disk D, nothing edited but the plugin item set
\* to cilium: the request handed over has machine type init, install disk
\* D and the cilium preset as its CNI configuration.
C17_BootstrapEndToEnd ==
    (/\ sent # <<>>
     /\ ~conn.expanding
     /\ Len(Disks) >= 1
     /\ edited = {DestCni}
     /\ sentCni = << "cilium" >>) =>
        /\ sent[1].MachineConfig.Type = "init"
        /\ sent[1].MachineConfig.InstallConfig.InstallDisk = Disks[1].DeviceName
        /\ SentCniConfig = << [Name |-> "custom", Urls |-> << CiliumURL >>] >>

C17_Witness ==
    /\ sent # <<>>
    /\ ~conn.expanding
    /\ Len(Disks) = 2
    /\ Disks[1].DeviceName = "/dev/sda"
    /\ edited = {DestCni}
    /\ sentCni = << "cilium" >>
    /\ sent[1].MachineConfig.InstallConfig.InstallDisk = "/dev/sda"

\* C18: after the header ("device name", "model name", "size") the
\* install-disk table has one row per disk, in Disks() order, row i being
\* the i-th disk's device name, model and humanized size.
C18_DiskRowsInOrder ==
    Built =>
        /\ InstallDiskItem.options[1] =
              NewTableHeaders(<<"device name", "model name", "size">>)
        /\ Len(InstallDiskItem.options) = 1 + 3 * Len(Disks)
        /\ NumChoices(InstallDiskItem) = Len(Disks)
        /\ \A i \in 1..Len(Disks) :
              ChoiceRow(InstallDiskItem, i) =
                 << Str(Disks[i].DeviceName), Str(Disks[i].Model),
                    Str(IF Disks[i].Size = 1500 THEN "1.5 kB" ELSE "64 MB") >>

C18_Witness ==
    /\ Built
    /\ Len(Disks) = 2
    /\ Disks[1].DeviceName = "/dev/sdb"
    /\ Disks[2].DeviceName = "/dev/sda"
    /\ ChoiceRow(InstallDiskItem, 1) = << Str("/dev/sdb"), Str("ModelB"), Str("1.5 kB") >>

\* C19: whatever the topology and the disks, NewState's request has config
\* version v1alpha1, the default Kubernetes version and install image,
\* cluster name talos-default and DNS domain cluster.local.
C19_FixedDefaults ==
    Built =>
        /\ Opts.ConfigVersion = "v1alpha1"
        /\ (DestKubernetesVersion \notin edited =>
              Opts.MachineConfig.KubernetesVersion = DefaultKubernetesVersion)
        /\ (DestInstallImage \notin edited =>
              Opts.MachineConfig.InstallConfig.InstallImage = DefaultInstallerImage)
        /\ (DestName \notin edited => Opts.ClusterConfig.Name = "talos-default")
        /\ (DestDnsDomain \notin edited =>
              Opts.ClusterConfig.ClusterNetwork.DnsDomain = "cluster.local")

C19_Witness ==
    /\ Built
    /\ conn.expanding
    /\ Len(Disks) = 2
    /\ edited = {DestInstallDisk, DestType}
    /\ Opts.ClusterConfig.ClusterNetwork.DnsDomain = "cluster.local"

\* C20: for every DiskSize, decoding its marshaled form succeeds and
\* yields the original number of bytes.
C20_RoundTrip ==
    codec.phase = "decoded" => codec.out = [err |-> NoError, ds |-> codec.ds]

\* C20, the part the code keeps: the human-readable string is emitted only
\* for a multiple of 1000 that the string parses back to, the exact integer
\* otherwise, and every size below 2^53 comes back unchanged.
C20_StringOnlyWhenExact ==
    codec.phase \in {"marshaled", "decoded"} =>
        /\ codec.form.t = "string" =>
              /\ MultipleOf1000(codec.ds)
              /\ ParseBytes(codec.form.text) = [err |-> NoError, v |-> codec.ds]
        /\ codec.form.t = "uint64" => codec.form.v = codec.ds
        /\ (codec.phase = "decoded" /\ ~Leq(TwoTo53, codec.ds)) =>
              codec.out = [err |-> NoError, ds |-> codec.ds]

\* 2^53 + 1 marshaled as an integer and decoded to 2^53
C20_Witness ==
    /\ codec.phase = "decoded"
    /\ codec.ds = <<9,0,0,7,1,9,9,2,5,4,7,4,0,9,9,3>>
    /\ codec.form = [t |-> "uint64", v |-> <<9,0,0,7,1,9,9,2,5,4,7,4,0,9,9,3>>]
    /\ codec.out = [err |-> NoError, ds |-> <<9,0,0,7,1,9,9,2,5,4,7,4,0,9,9,2>>]

\* C21: once a request carrying a preset's CNI configuration has been
\* handed over, every later GenConfig on the same State hands over a preset
\* configuration again: the selected key's preset if it has one, and
\* otherwise the one handed over before, whatever the key was changed to.
C21_PresetSticky ==
    [][(genConfigs' = genConfigs + 1 /\ sent # <<>> /\ SentCniConfig # <<>>) =>
          sent'[1].ClusterConfig.ClusterNetwork.CniConfig =
             IF state[1].cni \in DOMAIN CniPresetsTable
             THEN << CniPresetsTable[state[1].cni] >>
             ELSE SentCniConfig]_vars

C21_Witness ==
    /\ genConfigs = 2
    /\ DestCni \in edited
    /\ state[1].cni = DefaultCNI
    /\ sentCni = << DefaultCNI >>
    /\ written[DestCni] = DefaultCNI
    /\ SentCniConfig = << [Name |-> "custom", Urls |-> << CiliumURL >>] >>

\* C22: in expanding mode no item is bound to the selected plugin key, the
\* key stays at the default CNI name through every edit, and every request
\* handed over has no CNI configuration.
C22_ExpandingNeverReselects ==
    (Built /\ conn.expanding) =>
        /\ ~HasItemBoundTo(DestCni)
        /\ DestCni \notin edited
        /\ state[1].cni = DefaultCNI
        /\ Opts.ClusterConfig.ClusterNetwork.CniConfig = NilPtr
        /\ sent # <<>> => (sentCni = << DefaultCNI >> /\ SentCniConfig = <<>>)

C22_Witness ==
    /\ Built
    /\ conn.expanding
    /\ edits = 2
    /\ genConfigs = 2
    /\ DestType \in edited
    /\ SentCniConfig = <<>>

\* C23: a GenConfig, whether GenerateConfiguration succeeds or fails, leaves
\* the selected plugin key, the pages and every request field other than
\* the CNI configuration as they were before the call.
C23_GenConfigFrame ==
    [][genConfigs' = genConfigs + 1 =>
          /\ state' # <<>>
          /\ state'[1].cni = state[1].cni
          /\ state'[1].pages = state[1].pages
          /\ state'[1].conn = state[1].conn
          /\ state'[1].opts =
                [state[1].opts EXCEPT !.ClusterConfig.ClusterNetwork.CniConfig =
                    state'[1].opts.ClusterConfig.ClusterNetwork.CniConfig]]_vars

\* a failed GenConfig that still put the preset into the request
C23_Witness ==
    /\ genConfigs = 1
    /\ ret[1].err = "generate: rpc failed"
    /\ state[1].cni = "cilium"
    /\ Opts.ClusterConfig.ClusterNetwork.CniConfig = << "cilium" >>
    /\ Opts.MachineConfig.NetworkConfig.Hostname = "node-1"

\* the last GenConfig ran with no edit made since the GenConfig before it
Repeated == lastGen # <<>> /\ lastGen[1].prev # <<>>

\* C24: a GenConfig that follows another GenConfig on the same State with
\* no edit in between hands over the same request contents.
C24_GenConfigIdempotent ==
    Repeated => sent = lastGen[1].prev

C24_Witness ==
    /\ Repeated
    /\ sentCni = << "cilium" >>
    /\ SentCniConfig = << [Name |-> "custom", Urls |-> << CiliumURL >>] >>
    /\ lastGen[1].prev[1].ClusterConfig.ClusterNetwork.CniConfig =
          << [Name |-> "custom", Urls |-> << CiliumURL >>] >>

\* every location an item can be bound to
AllDests == RequestDests \cup { DestCni }

\* the items of the State, by page and position
ItemSlots == { <<p, i>> \in (1..MaxPages) \X (1..MaxItems) :
                  p <= Len(Pages) /\ i <= Len(Pages[p].items) }

\* C25: no two items of a State are bound to the same location, and an
\* edit writes the location of one item and leaves every other location,
\* the request fields no item is bound to, and the pages as they were.
C25_EditsTouchOneLocation ==
    /\ [](Built => \A a, b \in ItemSlots :
                      a # b => Pages[a[1]].items[a[2]].dest # Pages[b[1]].items[b[2]].dest)
    /\ [][edits' = edits + 1 =>
             \E d \in AllDests :
                /\ HasItemBoundTo(d)
                /\ d \in edited'
                /\ Get(state'[1], d) = written'[d]
                /\ \A e \in AllDests \ {d} : Get(state'[1], e) = Get(state[1], e)
                /\ state'[1].opts.ConfigVersion = state[1].opts.ConfigVersion
                /\ state'[1].opts.ClusterConfig.ClusterNetwork.CniConfig =
                      state[1].opts.ClusterConfig.ClusterNetwork.CniConfig
                /\ state'[1].pages = state[1].pages]_vars

\* two edits through two items: each location holds its own value
C25_Witness ==
    /\ Built
    /\ Cardinality(ItemSlots) = 9
    /\ edited = {DestHostname, DestName}
    /\ Opts.MachineConfig.NetworkConfig.Hostname = "node-1"
    /\ Opts.ClusterConfig.Name = "prod"
    /\ Opts.ClusterConfig.ClusterNetwork.DnsDomain = "cluster.local"

\* C26: the bound value of every item with at least one choice is the
\* underlying value of one of its choices, from construction on and after
\* every sequence of edits.
C26_BoundValueIsAChoice ==
    Built =>
        \A a \in ItemSlots :
            NumChoices(Pages[a[1]].items[a[2]]) >= 1 =>
                Get(state[1], Pages[a[1]].items[a[2]].dest)
                    \in ChoiceValues(Pages[a[1]].items[a[2]])

\* expanding, two disks, both choice items edited away from their defaults
C26_Witness ==
    /\ Built
    /\ conn.expanding
    /\ Len(Disks) = 2
    /\ edited = {DestInstallDisk, DestType}
    /\ Opts.MachineConfig.Type = TypeJoin
    /\ Opts.MachineConfig.InstallConfig.InstallDisk = Disks[2].DeviceName
    /\ NumChoices(InstallDiskItem) = 2
    /\ NumChoices(MachineTypeItem) = 2

\* the parts of a State that depend on the topology, as built when expanding
BuiltExpanding ==
    /\ DestEndpoint \notin edited =>
          Opts.ClusterConfig.ControlPlane.Endpoint = EndpointURL(conn.bootstrapEndpoint)
    /\ MachineTypeItem.options = << Str("worker"), MType(TypeJoin),
                                    Str("control plane"), MType(TypeControlPlane) >>
    /\ DestType \notin edited => Opts.MachineConfig.Type = TypeControlPlane
    /\ ItemNames(Pages[3]) = <<"hostname", "dns domain">>
    /\ ~HasItemBoundTo(DestCni)

\* the same parts, as built when bootstrapping
BuiltBootstrapping ==
    /\ DestEndpoint \notin edited =>
          Opts.ClusterConfig.ControlPlane.Endpoint = EndpointURL(conn.nodeEndpoint)
    /\ MachineTypeItem.options = << Str("control plane"), MType(TypeInit) >>
    /\ DestType \notin edited => Opts.MachineConfig.Type = TypeInit
    /\ ItemNames(Pages[3]) = <<"hostname", "dns domain", "type">>
    /\ HasItemBoundTo(DestCni)

=============================================================================
